---- MODULE Spec2Model ----
(***************************************************************************)
(* Model of src/src/main.rs: the terminal Tower of Hanoi animation.       *)
(* The recursion of Tower::move_stack is executed on an explicit call     *)
(* stack of frames; every frame carries its own program position.         *)
(***************************************************************************)
EXTENDS Integers, Sequences, FiniteSets, TLC

\* ---------------------------------------------------------------- bounds
MaxHeight == 4
MaxDelay == 1
MaxArgs == 3       \* command-line arguments after the program name
MaxExp == 40       \* largest height whose summary line is computed on its own

\* ------------------------------------------------------- program constants
DELAY_MS == 100
TOWER_SIZE == 6

RECURSIVE Pow(_, _)
Pow(b, e) == IF e = 0 THEN 1 ELSE b * Pow(b, e - 1)

\* A u32 is kept as two 16-bit limbs <<hi, lo>>, value hi * 2^16 + lo
Limb == 65536
u32_of(n) == <<n \div Limb, n % Limb>>
\* wrapping decrement of a u32
u32_dec(x) == IF x[2] > 0 THEN <<x[1], x[2] - 1>>
              ELSE IF x[1] > 0 THEN <<x[1] - 1, Limb - 1>>
              ELSE <<Limb - 1, Limb - 1>>

Column == {"First", "Second", "Third"}
LogLevel == {"None", "Minimal", "All"}

\* variant: the Second arm repeats the value of the First arm
get_value_second_as_first(c) == CASE c = "First" -> 0
                                  [] c = "Second" -> 0
                                  [] c = "Third" -> 2

\* Column::get_value
get_value(c) == CASE c = "First" -> 0
                  [] c = "Second" -> 1
                  [] c = "Third" -> 2

\* parameter values given on the command lines of the runs explored
Heights == 0..MaxHeight
Delays == {0, DELAY_MS} \cup (0..MaxDelay)

VARIABLES
    pc,           \* position of main: "params", "new", "print", "solve", "run", "log", "done", "panic"
    delay,        \* main's local delay
    height,       \* main's local height
    loglevel,     \* main's local loglevel
    tower,        \* the Tower value: [height, print_delay, state]
    stack,        \* call stack of move_stack frames, innermost last
    moves,        \* history of the (from, to) index pairs handed to move_peg
    printed,      \* history of the texts written to stdout by println!
    screen,       \* what the terminal shows since the last Clear(All)
    cursor,       \* terminal cursor state: blinking / hidden flags
    args,         \* env::args(): the program name and the command-line arguments
    overflow_checks,  \* build profile: TRUE when arithmetic overflow panics (debug)
    exit_code,    \* process exit status; -1 while the process runs
    history       \* history of tower.state: at construction and after each move_peg

vars == <<pc, delay, height, loglevel, tower, stack, moves, printed, screen, cursor,
          args, overflow_checks, exit_code, history>>

\* --------------------------------------------------------- command line
\* A String is the sequence of its characters; args is a Vec<String> whose
\* element 0 (TLA+ index 1) is the program name.
Str_H == <<"-", "H">>
Str_help == <<"-", "-", "h", "e", "l", "p">>
Str_D == <<"-", "D">>
Str_delay == <<"-", "-", "d", "e", "l", "a", "y">>
Str_N == <<"-", "N">>
Str_height == <<"-", "-", "h", "e", "i", "g", "h", "t">>
Str_L == <<"-", "L">>
Str_loglevel == <<"-", "-", "l", "o", "g", "l", "e", "v", "e", "l">>
Str_all == <<"a", "l", "l">>
Str_minimal == <<"m", "i", "n", "i", "m", "a", "l">>
Str_none == <<"n", "o", "n", "e">>
Str_hanoi == <<"h", "a", "n", "o", "i">>

DigitChars == <<"0", "1", "2", "3", "4", "5", "6", "7", "8", "9">>
UpperChars == <<"A", "B", "C", "D", "E", "F", "G", "H", "I", "J", "K", "L", "M",
                "N", "O", "P", "Q", "R", "S", "T", "U", "V", "W", "X", "Y", "Z">>
LowerChars == <<"a", "b", "c", "d", "e", "f", "g", "h", "i", "j", "k", "l", "m",
                "n", "o", "p", "q", "r", "s", "t", "u", "v", "w", "x", "y", "z">>

IndexIn(chars, ch) == CHOOSE i \in 1..Len(chars) : chars[i] = ch
IsIn(chars, ch) == \E i \in 1..Len(chars) : chars[i] = ch

\* str::to_lowercase on the characters the model uses
to_lowercase(str) ==
    [i \in 1..Len(str) |->
        IF IsIn(UpperChars, str[i]) THEN LowerChars[IndexIn(UpperChars, str[i])] ELSE str[i]]

\* u32::MAX is 4294967295 = U32MaxDiv10 * 10 + U32MaxMod10
U32MaxDiv10 == 429496729
U32MaxMod10 == 5

\* the digit loop of str::parse::<u32>: checked multiply by 10, checked add
RECURSIVE parse_digits(_, _, _)
parse_digits(str, i, acc) ==
    IF i > Len(str) THEN [ok |-> TRUE, val |-> acc]
    ELSE IF ~IsIn(DigitChars, str[i]) THEN [ok |-> FALSE, val |-> 0]
    ELSE LET d == IndexIn(DigitChars, str[i]) - 1
         IN  IF acc > U32MaxDiv10 \/ (acc = U32MaxDiv10 /\ d > U32MaxMod10)
             THEN [ok |-> FALSE, val |-> 0]
             ELSE parse_digits(str, i + 1, acc * 10 + d)

\* string.parse::<u32>(): empty and lone-sign strings are errors, one leading
\* "+" is accepted, "-" is not a digit of an unsigned type
parse_u32(str) ==
    IF str = <<>> THEN [ok |-> FALSE, val |-> 0]
    ELSE IF Len(str) = 1 /\ str[1] \in {"+", "-"} THEN [ok |-> FALSE, val |-> 0]
    ELSE IF str[1] = "+" THEN parse_digits(str, 2, 0)
    ELSE parse_digits(str, 1, 0)

HelpPointer == "Do -H or --help for more informatin."

display_help ==
    <<"Usage: hanoi [OPTION...]",
      "Solves the tower of hanoi in your terminal!\n",
      "Arguments:",
      "-H, --help",
      "\t Displays help",
      "-D [value], --delay [value]",
      "\tSets the delay between peg moves; [value] is a positive integer in milliseconds.",
      "\tDefault value of 100",
      "-N [value], --height [value]",
      "\tSets the height of the tower; [value] is a positive integer.",
      "-L [value], --loglevel [value]",
      "\tSets the loglevel for the program (not capital sensitive).",
      "\tPossible values are:",
      "\t\t[None] - print nothing",
      "\t\t[Minimal] - only print moves taken",
      "\t\t[All] - print both moves taken, tower height and print delay",
      "\tDefault value of [Minimal]">>

\* a value getter either yields a value or prints and calls process::exit(0)
Got(val) == [exit |-> FALSE, code |-> 0, out |-> <<>>, val |-> val]
Exits(lines) == [exit |-> TRUE, code |-> 0, out |-> lines, val |-> 0]

\* variant: a missing value leaves the default delay in place
get_delay_default_when_missing(a, index) ==
    IF index >= Len(a)
    THEN Got(DELAY_MS)
    ELSE LET r == parse_u32(a[index + 1])
         IN  IF r.ok THEN Got(r.val)
             ELSE Exits(<<"Please specify a valid value for delay!", HelpPointer>>)

\* Vec::get(index) is Some exactly for index < len
get_delay(a, index) ==
    IF index >= Len(a)
    THEN Exits(<<"Please specify a value for delay!", HelpPointer>>)
    ELSE LET r == parse_u32(a[index + 1])
         IN  IF r.ok THEN Got(r.val)
             ELSE Exits(<<"Please specify a valid value for delay!", HelpPointer>>)

get_height(a, index) ==
    IF index >= Len(a)
    THEN Exits(<<"Please specify a value for height!", HelpPointer>>)
    ELSE LET r == parse_u32(a[index + 1])
         IN  IF r.ok THEN Got(r.val)
             ELSE Exits(<< <<a[index + 1], " is not a valid value for height!">>,
                           "Please specify a valid value for height!", HelpPointer>>)

get_log(a, index) ==
    IF index >= Len(a)
    THEN Exits(<<"Please specify a value for log level!", HelpPointer>>)
    ELSE LET low == to_lowercase(a[index + 1])
         IN  IF low = Str_all THEN Got("All")
             ELSE IF low = Str_minimal THEN Got("Minimal")
             ELSE IF low = Str_none THEN Got("None")
             ELSE Exits(<< <<a[index + 1], " is not a valid value for log level!">>,
                           "Please specify a valid value for log level!", HelpPointer>>)

Returns(d, h, l) == [exit |-> FALSE, code |-> 0, out |-> <<>>, delay |-> d, height |-> h, log |-> l]
ExitsParameters(r) == [exit |-> TRUE, code |-> r.code, out |-> r.out, delay |-> 0, height |-> 0, log |-> "None"]

\* the loop `for arg_i in (0..(args.len() / 2)).map(|i| i * 2 + 1)` from its
\* i-th iteration, with the values assigned so far
RECURSIVE parameters_loop(_, _, _, _, _)
parameters_loop(a, i, d, h, l) ==
    LET arg_i == i * 2 + 1
    IN  IF i >= Len(a) \div 2 THEN Returns(d, h, l)
        ELSE IF arg_i >= Len(a) THEN Returns(d, h, l)
        ELSE LET arg == a[arg_i + 1]
             IN  IF arg = Str_H \/ arg = Str_help
                 THEN ExitsParameters(Exits(display_help))
                 ELSE IF arg = Str_D \/ arg = Str_delay
                 THEN LET r == get_delay(a, arg_i + 1)
                      IN  IF r.exit THEN ExitsParameters(r)
                          ELSE parameters_loop(a, i + 1, r.val, h, l)
                 ELSE IF arg = Str_N \/ arg = Str_height
                 THEN LET r == get_height(a, arg_i + 1)
                      IN  IF r.exit THEN ExitsParameters(r)
                          ELSE parameters_loop(a, i + 1, d, r.val, l)
                 ELSE IF arg = Str_L \/ arg = Str_loglevel
                 THEN LET r == get_log(a, arg_i + 1)
                      IN  IF r.exit THEN ExitsParameters(r)
                          ELSE parameters_loop(a, i + 1, d, h, r.val)
                 ELSE ExitsParameters(Exits(<< <<"Unknown argument \"", arg, "\"!">>,
                                               HelpPointer>>))

\* variant: the loglevel starts out as All
get_parameters_default_all(a) ==
    IF Len(a) < 2 THEN Returns(DELAY_MS, TOWER_SIZE, "All")
    ELSE parameters_loop(a, 0, DELAY_MS, TOWER_SIZE, "All")

get_parameters(a) ==
    IF Len(a) < 2 THEN Returns(DELAY_MS, TOWER_SIZE, "Minimal")
    ELSE parameters_loop(a, 0, DELAY_MS, TOWER_SIZE, "Minimal")

\* ------------------------------------------------------------- Tower::new
\* the loop `for i in 0..height { starting_col.push(height - i) }`,
\* run from iteration i with the vector built so far
RECURSIVE starting_col_from(_, _, _)
starting_col_from(h, i, acc) ==
    IF i >= h THEN acc ELSE starting_col_from(h, i + 1, Append(acc, h - i))

\* variant: the loop pushes i + 1, filling the peg smallest disk first
starting_col_ascending(h) == [i \in 1..h |-> i]

starting_col(h) == starting_col_from(h, 0, <<>>)

Tower_new(h, d) ==
    [height |-> h,
     print_delay |-> d,
     state |-> [c \in 0..2 |-> IF c = 0 THEN starting_col(h) ELSE <<>>]]

\* ------------------------------------------------------------ Tower::move_peg
\* pop() of a non-empty vector
pop_rest(v) == SubSeq(v, 1, Len(v) - 1)
pop_val(v) == v[Len(v)]

\* variant: the disk is read with last() instead of pop(), so it stays on `from`
move_peg_no_pop(st, from, to) ==
    [st EXCEPT ![to] = Append(st[to], pop_val(st[from]))]

\* variant: the disk is inserted at index 0 of `to`, under the disks already there
move_peg_to_bottom(st, from, to) ==
    LET val == pop_val(st[from])
        popped == [st EXCEPT ![from] = pop_rest(st[from])]
    IN  [popped EXCEPT ![to] = <<val>> \o popped[to]]

\* state after move_peg(from, to) when state[from] is non-empty
move_peg(st, from, to) ==
    LET val == pop_val(st[from])
        popped == [st EXCEPT ![from] = pop_rest(st[from])]
    IN  [popped EXCEPT ![to] = Append(popped[to], val)]

\* ---------------------------------------------------------- Tower::move_stack
\* variant: the test is `size > 1`
has_work_above_one(size) == size > 1

\* variant: the test is `size >= 0`
has_work_from_zero(size) == size >= 0

\* the test `if size > 0`
has_work(size) == size > 0

\* frame of a call move_stack(size, start_col, target_col, aux_col);
\* called_at notes how many moves had been made when the call was entered
Frame(size, start, target, aux) ==
    [size |-> size, start |-> start, target |-> target, aux |-> aux, pc |-> "enter",
     called_at |-> Len(moves)]

\* variant: solve passes Second as the target and Third as the auxiliary
solve_frame_to_second(t) == Frame(t.height, "First", "Second", "Third")

\* Tower::solve: self.move_stack(self.height, First, Third, Second)
solve_frame(t) == Frame(t.height, "First", "Third", "Second")

\* variant: the first recursive call keeps target and aux in place
first_call_unswapped(f) == Frame(f.size - 1, f.start, f.target, f.aux)

\* variant: the first recursive call starts from the auxiliary peg
first_call_from_aux(f) == Frame(f.size - 1, f.aux, f.start, f.target)

\* line 79: self.move_stack(size - 1, start_col, aux_col, target_col)
first_call(f) == Frame(f.size - 1, f.start, f.aux, f.target)

\* variant: the second recursive call takes its disks from the target peg
second_call_from_target(f) == Frame(f.size - 1, f.target, f.aux, f.start)

\* variant: the second recursive call takes its disks from the start peg again
second_call_from_start(f) == Frame(f.size - 1, f.start, f.target, f.aux)

\* variant: the second recursive call carries the disks back to the start peg
second_call_back_to_start(f) == Frame(f.size - 1, f.aux, f.start, f.target)

\* line 81: self.move_stack(size - 1, aux_col, target_col, start_col)
second_call(f) == Frame(f.size - 1, f.aux, f.target, f.start)

Top == stack[Len(stack)]
SetTopPc(p) == [stack EXCEPT ![Len(stack)].pc = p]
Popped == SubSeq(stack, 1, Len(stack) - 1)

\* ------------------------------------------------------ Tower::get_layer_string
Space == " "
Block == "#"      \* stands for the filled-square character
Newline == "\n"

\* str::repeat
RECURSIVE repeat(_, _)
repeat(ch, n) == IF n <= 0 THEN <<>> ELSE <<ch>> \o repeat(ch, n - 1)

\* let box_width = (self.height * 2 + 6) as usize
\* (for heights from 2^31 - 3 on this u32 sum overflows; main's first
\* println! then fails on the top layer, before solve is entered)
box_width(t) == t.height * 2 + 6

\* variant: the block is one character per unit of disk size
peg_string_length_single(value) == value

\* let peg_string_length = (value * 2) as usize
peg_string_length(value) == value * 2

\* variant: the division binds to box_width alone
pad_spaces_half_box(bw, len) == bw \div 2 - len

\* let pad_spaces = (box_width - peg_string_length) / 2
pad_spaces(bw, len) == (bw - len) \div 2

\* Vec::get(layer): is there an element at 0-based index layer
has_layer(v, layer) == layer < Len(v)

\* the text one iteration of `for col in 0..3` pushes
cell_string(t, col, layer) ==
    IF has_layer(t.state[col], layer)
    THEN LET value == t.state[col][layer + 1]
             len == peg_string_length(value)
             pad == pad_spaces(box_width(t), len)
         IN  repeat(Space, pad) \o repeat(Block, len) \o repeat(Space, pad)
    ELSE repeat(Space, box_width(t))

get_layer_string(t, layer) ==
    cell_string(t, 0, layer) \o cell_string(t, 1, layer) \o cell_string(t, 2, layer)
        \o <<Newline>>

\* ------------------------------------------------------ impl fmt::Display
\* `for i in (0..max_height).rev()`, run from layer i downwards
RECURSIVE fmt_from(_, _)
fmt_from(t, i) ==
    IF i < 0 THEN <<>> ELSE get_layer_string(t, i) \o fmt_from(t, i - 1)

\* variant: the layers are pushed without .rev(), base layer first
RECURSIVE fmt_up_from(_, _)
fmt_up_from(t, i) ==
    IF i >= t.height THEN <<>> ELSE get_layer_string(t, i) \o fmt_up_from(t, i + 1)

fmt_bottom_up(t) == fmt_up_from(t, 0)

fmt(t) == fmt_from(t, t.height - 1)

\* println!("{}", self)
println_tower(t) == fmt(t) \o <<Newline>>

\* ------------------------------------------------------------------- main
\* 2u32.pow(exp) as a release build computes it: the wrapping product is
\* 2^exp modulo 2^32, a single bit in the low or the high limb, or zero
u32_pow2(exp) ==
    IF exp >= 32 THEN <<0, 0>>
    ELSE IF exp >= 16 THEN <<Pow(2, exp - 16), 0>>
    ELSE <<0, Pow(2, exp)>>

\* 2u32.pow(exp) does not fit a u32
U32Bits == 32
pow2_overflows(exp) == exp >= U32Bits

\* exit status of a process that panicked; no status while it runs
PanicCode == 101
Running == -1

\* 2u32.pow(tower.height) - 1, as the two limbs of the u32 printed
completed_moves(h) == u32_dec(u32_pow2(h))

log_lines(level, t, d) ==
    CASE level = "None" -> <<>>
      [] level = "Minimal" -> << <<"Completed in", completed_moves(t.height), "moves">> >>
      [] level = "All" -> << <<"Completed in", completed_moves(t.height), "moves">>,
                             <<"Tower height:", t.height, "pegs">>,
                             <<"Delay: ~", d, "ms">> >>

\* u32 Display: the decimal digits of n
RECURSIVE to_string(_)
to_string(n) ==
    IF n < 10 THEN <<DigitChars[n + 1]>>
    ELSE to_string(n \div 10) \o <<DigitChars[(n % 10) + 1]>>

level_string(l) == CASE l = "None" -> Str_none
                     [] l = "Minimal" -> Str_minimal
                     [] l = "All" -> Str_all

\* hanoi -N h -D d -L l
ArgsFor(h, d, l) ==
    <<Str_hanoi, Str_N, to_string(h), Str_D, to_string(d), Str_L, level_string(l)>>

\* the command lines of the runs explored: no arguments, and every height,
\* delay and loglevel within the bounds
RunArgs ==
    {<<Str_hanoi>>} \cup {ArgsFor(h, d, l) : h \in Heights, d \in Delays, l \in LogLevel}

Init ==
    /\ pc = "params"
    /\ delay = DELAY_MS
    /\ height = TOWER_SIZE
    /\ loglevel = "Minimal"
    /\ tower = Tower_new(0, 0)       \* not constructed yet; unread before pc = "print"
    /\ stack = <<>>
    /\ moves = <<>>
    /\ printed = <<>>
    /\ screen = <<>>
    /\ cursor = [blinking |-> FALSE, hidden |-> TRUE]
    /\ args \in RunArgs
    /\ overflow_checks \in BOOLEAN
    /\ exit_code = Running
    /\ history = <<>>

\* let (delay, height, loglevel) = get_parameters(args);
\* process::exit inside get_parameters ends the run here
MainGetParameters ==
    /\ pc = "params"
    /\ LET r == get_parameters(args)
       IN  IF r.exit
           THEN /\ pc' = "exit"
                /\ exit_code' = r.code
                /\ printed' = printed \o r.out
                /\ screen' = screen \o r.out
                /\ UNCHANGED <<delay, height, loglevel>>
           ELSE /\ pc' = "new"
                /\ delay' = r.delay
                /\ height' = r.height
                /\ loglevel' = r.log
                /\ UNCHANGED <<exit_code, printed, screen>>
    /\ UNCHANGED <<tower, stack, moves, cursor, args, overflow_checks, history>>

\* let mut tower = Tower::new(height, delay)
MainNew ==
    /\ pc = "new"
    /\ tower' = Tower_new(height, delay)
    /\ pc' = "print"
    /\ history' = <<tower'.state>>
    /\ UNCHANGED <<delay, height, loglevel, stack, moves, printed, screen, cursor, args, overflow_checks, exit_code>>

\* println!("{}", tower)
MainPrint ==
    /\ pc = "print"
    /\ printed' = Append(printed, println_tower(tower))
    /\ screen' = screen \o println_tower(tower)
    /\ pc' = "solve"
    /\ UNCHANGED <<delay, height, loglevel, tower, stack, moves, cursor, args, overflow_checks, exit_code, history>>

\* tower.solve(): enters move_stack
Solve ==
    /\ pc = "solve"
    /\ stack' = <<solve_frame(tower)>>
    /\ pc' = "run"
    /\ UNCHANGED <<delay, height, loglevel, tower, moves, printed, screen, cursor, args, overflow_checks, exit_code, history>>

\* move_stack with size > 0: the first recursive call (line 79)
MoveStackFirstCall ==
    /\ pc = "run" /\ stack # <<>>
    /\ Top.pc = "enter"
    /\ has_work(Top.size)
    /\ stack' = Append(SetTopPc("move"), first_call(Top))
    /\ UNCHANGED <<pc, delay, height, loglevel, tower, moves, printed, screen, cursor, args, overflow_checks, exit_code, history>>

\* move_stack whose test `size > 0` fails: the call returns at once
MoveStackBase ==
    /\ pc = "run" /\ stack # <<>>
    /\ Top.pc = "enter"
    /\ ~has_work(Top.size)
    /\ stack' = Popped
    /\ UNCHANGED <<pc, delay, height, loglevel, tower, moves, printed, screen, cursor, args, overflow_checks, exit_code, history>>

\* variant: move_stack calls move_peg directly, so no frame follows the move
MovePegUnrendered ==
    /\ pc = "run" /\ stack # <<>>
    /\ Top.pc = "move"
    /\ LET from == get_value(Top.start)
           to == get_value(Top.target)
       IN  /\ moves' = Append(moves, <<from, to>>)
           /\ IF tower.state[from] = <<>>
              THEN /\ pc' = "panic"
                   /\ exit_code' = PanicCode
                   /\ UNCHANGED <<tower, stack, history>>
              ELSE /\ tower' = [tower EXCEPT !.state = move_peg(tower.state, from, to)]
                   /\ history' = Append(history, tower'.state)
                   /\ stack' = SetTopPc("call2")
                   /\ UNCHANGED <<pc, exit_code>>
    /\ UNCHANGED <<delay, height, loglevel, printed, screen, cursor, args, overflow_checks>>

\* move_and_print, first statement: self.move_peg(from, to);
\* pop().unwrap() on an empty peg panics and ends the process
MovePeg ==
    /\ pc = "run" /\ stack # <<>>
    /\ Top.pc = "move"
    /\ LET from == get_value(Top.start)
           to == get_value(Top.target)
       IN  /\ moves' = Append(moves, <<from, to>>)
           /\ IF tower.state[from] = <<>>
              THEN /\ pc' = "panic"
                   /\ exit_code' = PanicCode
                   /\ UNCHANGED <<tower, stack, history>>
              ELSE /\ tower' = [tower EXCEPT !.state = move_peg(tower.state, from, to)]
                   /\ history' = Append(history, tower'.state)
                   /\ stack' = SetTopPc("print")
                   /\ UNCHANGED <<pc, exit_code>>
    /\ UNCHANGED <<delay, height, loglevel, printed, screen, cursor, args, overflow_checks>>

\* move_and_print, rest: Clear(All), MoveTo(0, 0), println!, sleep(print_delay)
MovePrint ==
    /\ pc = "run" /\ stack # <<>>
    /\ Top.pc = "print"
    /\ printed' = Append(printed, println_tower(tower))
    /\ screen' = println_tower(tower)
    /\ stack' = SetTopPc("call2")
    /\ UNCHANGED <<pc, delay, height, loglevel, tower, moves, cursor, args, overflow_checks, exit_code, history>>

\* move_stack: the second recursive call (line 81)
MoveStackSecondCall ==
    /\ pc = "run" /\ stack # <<>>
    /\ Top.pc = "call2"
    /\ stack' = Append(SetTopPc("ret"), second_call(Top))
    /\ UNCHANGED <<pc, delay, height, loglevel, tower, moves, printed, screen, cursor, args, overflow_checks, exit_code, history>>

\* move_stack returns after its second recursive call
MoveStackReturn ==
    /\ pc = "run" /\ stack # <<>>
    /\ Top.pc = "ret"
    /\ stack' = Popped
    /\ UNCHANGED <<pc, delay, height, loglevel, tower, moves, printed, screen, cursor, args, overflow_checks, exit_code, history>>

\* solve returned: `match loglevel`; main then returns.
\* With overflow checks 2u32.pow panics when the power does not fit a u32.
MainLog ==
    /\ pc = "run" /\ stack = <<>>
    /\ IF loglevel # "None" /\ overflow_checks /\ pow2_overflows(tower.height)
       THEN /\ pc' = "panic"
            /\ exit_code' = PanicCode
            /\ UNCHANGED <<printed, screen>>
       ELSE /\ printed' = printed \o log_lines(loglevel, tower, delay)
            /\ screen' = screen \o log_lines(loglevel, tower, delay)
            /\ pc' = "done"
            /\ exit_code' = 0
    /\ UNCHANGED <<delay, height, loglevel, tower, stack, moves, cursor, args, overflow_checks, history>>

Next ==
    \/ MainGetParameters
    \/ MainNew
    \/ MainPrint
    \/ Solve
    \/ MoveStackFirstCall
    \/ MoveStackBase
    \/ MovePeg
    \/ MovePrint
    \/ MoveStackSecondCall
    \/ MoveStackReturn
    \/ MainLog

Spec == Init /\ [][Next]_vars

\* The process is single-threaded and nothing blocks but the timed sleep, so
\* a step that is possible is eventually taken.
FairSpec == Init /\ [][Next]_vars /\ WF_vars(Next)

\* ---- command lines at large: every list of at most MaxArgs tokens
CliTokens ==
    {Str_H, Str_help, Str_D, Str_delay, Str_N, Str_height, Str_L, Str_loglevel,
     <<"-", "X">>, <<"+", "1">>, <<"-", "1">>,
     <<"4", "2", "9", "4", "9", "6", "7", "2", "9", "6">>,
     <<"A", "l", "L">>}

RECURSIVE TokenLists(_)
TokenLists(n) ==
    IF n = 0 THEN {<<>>}
    ELSE TokenLists(n - 1)
            \cup {Append(l, t) : l \in {x \in TokenLists(n - 1) : Len(x) = n - 1}, t \in CliTokens}

CliArgs == {<<Str_hanoi>> \o l : l \in TokenLists(MaxArgs)}

InitCli ==
    /\ pc = "params"
    /\ delay = DELAY_MS
    /\ height = TOWER_SIZE
    /\ loglevel = "Minimal"
    /\ tower = Tower_new(0, 0)
    /\ stack = <<>>
    /\ moves = <<>>
    /\ printed = <<>>
    /\ screen = <<>>
    /\ cursor = [blinking |-> FALSE, hidden |-> TRUE]
    /\ args \in CliArgs
    /\ overflow_checks \in BOOLEAN
    /\ exit_code = Running
    /\ history = <<>>

SpecCli == InitCli /\ [][Next]_vars

\* ---- the summary of main on its own: solve has just returned for a tower
\* of any height up to MaxExp (the histories moves, printed and history are not kept)
InitLog ==
    \E h \in 0..MaxExp, l \in LogLevel :
        /\ pc = "run"
        /\ delay = 0
        /\ height = h
        /\ loglevel = l
        /\ tower = [height |-> h, print_delay |-> 0,
                    state |-> [c \in 0..2 |-> IF c = 2 THEN [i \in 1..h |-> h + 1 - i] ELSE <<>>]]
        /\ stack = <<>>
        /\ moves = <<>>
        /\ printed = <<>>
        /\ screen = <<>>
        /\ cursor = [blinking |-> FALSE, hidden |-> TRUE]
        /\ args = ArgsFor(h, 0, l)
        /\ overflow_checks \in BOOLEAN
        /\ exit_code = Running
        /\ history = <<>>

NextLog == MainLog

SpecLog == InitLog /\ [][NextLog]_vars

TypeOK ==
    /\ pc \in {"params", "exit", "new", "print", "solve", "run", "done", "panic"}
    /\ height \in Nat /\ delay \in Nat /\ loglevel \in LogLevel
    /\ DOMAIN tower.state = 0..2

\* ------------------------------------------------------------ vocabulary
\* the Tower value exists (Tower::new has returned)
Constructed == pc \in {"print", "solve", "run", "done", "panic"}

\* tower.solve() has returned
SolveReturned == (pc = "run" /\ stack = <<>>) \/ pc = "done"

\* a call of move_peg is about to execute
AtMovePeg == pc = "run" /\ stack # <<>> /\ Top.pc = "move"

\* the last move has been applied and its frame is still to be drawn
AtRender == pc = "run" /\ stack # <<>> /\ Top.pc = "print"

\* h, h-1, ..., 1 listed bottom to top
Descending(h) == [i \in 1..h |-> h + 1 - i]

StrictlyDecreasing(v) == \A i \in 1..(Len(v) - 1) : v[i] > v[i + 1]

Range(v) == {v[i] : i \in 1..Len(v)}

IsPrefix(a, b) == Len(a) <= Len(b) /\ a = SubSeq(b, 1, Len(a))

AllDisks == tower.state[0] \o tower.state[1] \o tower.state[2]

\* the move sequence of the textbook recursion, over peg indices
RECURSIVE Moves(_, _, _, _)
Moves(n, start, target, aux) ==
    IF n = 0 THEN <<>>
    ELSE Moves(n - 1, start, aux, target) \o << <<start, target>> >>
             \o Moves(n - 1, aux, target, start)

\* the arrangement of the pegs after the first k moves
StateAfter(k) == history[k + 1]

TowerAfter(k) == [height |-> height, print_delay |-> delay, state |-> StateAfter(k)]

\* the frames on stdout: everything printed except the closing summary lines
Frames ==
    IF pc = "done"
    THEN SubSeq(printed, 1, Len(printed) - Len(log_lines(loglevel, tower, delay)))
    ELSE printed

\* ----------------------------------------------------------------- claims

\* C1: when solve returns, the third peg holds h, h-1, ..., 1 from bottom to
\* top and the first and second pegs are empty.
C1_SolvedOnThirdPeg ==
    SolveReturned =>
        /\ tower.state[2] = Descending(tower.height)
        /\ tower.state[0] = <<>>
        /\ tower.state[1] = <<>>

C1_Witness ==
    /\ SolveReturned
    /\ tower.height >= 3
    /\ Len(tower.state[2]) = tower.height

\* C2: one call of solve makes exactly 2^h - 1 calls of move_peg.
C2_MoveCount ==
    /\ SolveReturned => Len(moves) = Pow(2, tower.height) - 1
    /\ Constructed => Len(moves) <= Pow(2, tower.height) - 1

C2_Witness ==
    /\ SolveReturned
    /\ tower.height >= 3
    /\ Len(moves) = 7 \/ Len(moves) = 15

C2_WitnessZero == SolveReturned /\ tower.height = 0 /\ moves = <<>>

\* C3: from construction on, every peg lists its disks in strictly decreasing
\* size from bottom to top.
C3_PegsStrictlyDecreasing ==
    Constructed => \A c \in 0..2 : StrictlyDecreasing(tower.state[c])

C3_Witness ==
    /\ pc = "run"
    /\ moves # <<>>
    /\ \E c \in 0..2 : Len(tower.state[c]) >= 2 /\ c # 0

\* C4: when move_peg is invoked, the destination peg is empty or its top disk
\* is strictly larger than the top disk of the source peg.
C4_MoveIsLegal ==
    AtMovePeg =>
        LET src == tower.state[get_value(Top.start)]
            dst == tower.state[get_value(Top.target)]
        IN  src # <<>> => (dst = <<>> \/ pop_val(dst) > pop_val(src))

C4_Witness ==
    /\ AtMovePeg
    /\ tower.state[get_value(Top.start)] # <<>>
    /\ tower.state[get_value(Top.target)] # <<>>

\* C5: from construction on, the three pegs together hold exactly h disks,
\* the sizes 1..h, each exactly once.
C5_DisksConserved ==
    Constructed =>
        /\ Len(AllDisks) = tower.height
        /\ Range(AllDisks) = 1..tower.height

C5_Witness ==
    /\ pc = "run"
    /\ tower.height >= 3
    /\ \A c \in 0..2 : tower.state[c] # <<>>

\* C6: the source peg of every move_peg call is non-empty, so the unwrap in
\* move_peg never panics.
C6_SourceNeverEmpty ==
    /\ pc # "panic"
    /\ AtMovePeg => tower.state[get_value(Top.start)] # <<>>

C6_Witness ==
    /\ AtMovePeg
    /\ Len(tower.state[get_value(Top.start)]) = 1
    /\ Len(moves) >= 3

\* C7: the moves applied by the stack execution of solve are, in order and in
\* number, the sequence Moves(h, First, Third, Second) of the recursion.
C7_MovesFollowRecursion ==
    Constructed =>
        LET expected == Moves(tower.height, get_value("First"), get_value("Third"),
                              get_value("Second"))
        IN  /\ IsPrefix(moves, expected)
            /\ SolveReturned => moves = expected

C7_Witness ==
    /\ SolveReturned
    /\ tower.height = 3
    /\ Len(moves) = 7
    /\ moves[4] = <<0, 2>>

\* C8: the initial frame is printed once before the first move; after that
\* every move is followed by exactly one frame showing the tower with that
\* move applied, before the next move: frame k + 1 shows the tower after k moves.
C8_MovesAndFramesAlternate ==
    /\ pc \in {"params", "new", "print"} => printed = <<>> /\ moves = <<>>
    /\ pc \in {"solve", "run", "done"} =>
          /\ Len(Frames) = (IF AtRender THEN Len(moves) ELSE Len(moves) + 1)
          /\ \A k \in 0..(Len(Frames) - 1) : Frames[k + 1] = println_tower(TowerAfter(k))
          /\ AtMovePeg => Len(Frames) = Len(moves) + 1

C8_Witness ==
    /\ AtMovePeg
    /\ Len(moves) >= 2
    /\ Len(Frames) = Len(moves) + 1
    /\ Frames[Len(Frames)] # Frames[Len(Frames) - 1]

\* C9: Tower::new(h, delay) puts h, h-1, ..., 1 (bottom to top) on the first
\* peg and leaves the second and third pegs empty; for h = 0 all are empty.
C9_NewTower ==
    pc \in {"print", "solve"} =>
        /\ tower.height = height
        /\ tower.print_delay = delay
        /\ Len(tower.state[0]) = height
        /\ \A i \in 1..height : tower.state[0][i] = height + 1 - i
        /\ tower.state[1] = <<>>
        /\ tower.state[2] = <<>>
        /\ height = 0 => \A c \in 0..2 : tower.state[c] = <<>>

C9_Witness ==
    /\ pc = "print"
    /\ height >= 3
    /\ tower.state[0][1] = height
    /\ tower.state[0][height] = 1

C9_WitnessZero == pc = "print" /\ height = 0 /\ tower.state[0] = <<>>

\* C10: every rendered cell, disk or blank, is h*2+6 characters long, and
\* every rendered line is 3*(h*2+6) characters followed by one line terminator.
CellWidth == tower.height * 2 + 6
LineWidth == 3 * CellWidth

C10_CellsHaveBoxWidth ==
    Constructed =>
        /\ \A layer \in 0..(tower.height - 1) :
              /\ \A col \in 0..2 : Len(cell_string(tower, col, layer)) = CellWidth
              /\ LET line == get_layer_string(tower, layer)
                 IN  /\ Len(line) = LineWidth + 1
                     /\ \A i \in 1..Len(line) : (line[i] = Newline) <=> (i = LineWidth + 1)
        /\ \A k \in 1..Len(Frames) :
              /\ Len(Frames[k]) = tower.height * (LineWidth + 1) + 1
              /\ \A i \in 1..(Len(Frames[k]) - 1) :
                    (Frames[k][i] = Newline) <=> (i % (LineWidth + 1) = 0)

C10_Witness ==
    /\ pc = "run"
    /\ tower.height >= 3
    /\ Len(Frames) >= 3
    /\ \E col \in 0..2 : \E layer \in 0..(tower.height - 1) :
          /\ has_layer(tower.state[col], layer)
          /\ tower.state[col][layer + 1] = tower.height
          /\ col # 0
    /\ \E col \in 0..2 : ~has_layer(tower.state[col], 0)

\* C11: a peg with a disk of size d at index l shows a filled block of exactly
\* 2*d characters with equal space padding left and right; a peg with fewer
\* than l+1 disks shows an entirely blank cell. For height 1 the initial frame
\* has a width-2 block centred in the first column, and after the single move
\* the block is centred in the third column.
BlockAt(cell) == {i \in 1..Len(cell) : cell[i] = Block}
SpaceAt(cell) == {i \in 1..Len(cell) : cell[i] = Space}

CenteredBlock(cell, d) ==
    \E p \in 0..Len(cell) :
        /\ BlockAt(cell) = (p + 1)..(p + 2 * d)
        /\ SpaceAt(cell) = (1..p) \cup ((p + 2 * d + 1)..Len(cell))
        /\ Len(cell) = p + 2 * d + p

BlankCell(cell) == SpaceAt(cell) = 1..Len(cell)

BlankCell8 == <<" ", " ", " ", " ", " ", " ", " ", " ">>
DiskCell8 == <<" ", " ", " ", "#", "#", " ", " ", " ">>

C11_CellsShowDisks ==
    Constructed =>
        /\ \A col \in 0..2 : \A layer \in 0..(tower.height - 1) :
              LET cell == cell_string(tower, col, layer)
              IN  IF layer + 1 <= Len(tower.state[col])
                  THEN CenteredBlock(cell, tower.state[col][layer + 1])
                  ELSE BlankCell(cell) /\ Len(cell) = tower.height * 2 + 6
        /\ (tower.height = 1 /\ Len(Frames) >= 1) =>
              Frames[1] = DiskCell8 \o BlankCell8 \o BlankCell8 \o <<"\n", "\n">>
        /\ (tower.height = 1 /\ Len(Frames) >= 2) =>
              Frames[2] = BlankCell8 \o BlankCell8 \o DiskCell8 \o <<"\n", "\n">>

C11_Witness ==
    /\ pc = "run"
    /\ tower.height >= 3
    /\ \E col \in 1..2 : Len(tower.state[col]) >= 2
    /\ \E col \in 0..2 : Len(tower.state[col]) < tower.height - 1

C11_WitnessHeightOne == tower.height = 1 /\ Len(Frames) = 2 /\ pc = "done"

\* C12: the rendered frame has exactly h lines, from the top layer (index
\* h-1) down to the base layer (index 0), each showing the first, second and
\* third peg left to right; for height 0 the frame is empty.
\* the lines of a text, each without its terminator
NewlinesUpTo(text, i) == Cardinality({j \in 1..i : text[j] = Newline})
\* position of the k-th line terminator (0 for k = 0)
TerminatorPos(text, k) ==
    IF k = 0 THEN 0
    ELSE CHOOSE i \in 1..Len(text) : text[i] = Newline /\ NewlinesUpTo(text, i) = k
LinesOf(text) ==
    [k \in 1..NewlinesUpTo(text, Len(text)) |->
        SubSeq(text, TerminatorPos(text, k - 1) + 1, TerminatorPos(text, k) - 1)]
\* every character of the text belongs to a terminated line
AllTerminated(text) == text = <<>> \/ text[Len(text)] = Newline

\* what peg col shows at a layer, read off the tower: disk size or 0
Shown(col, layer) ==
    IF layer + 1 <= Len(tower.state[col]) THEN tower.state[col][layer + 1] ELSE 0

\* the size a cell shows: half its number of block characters
CellShows(cell) == Cardinality(BlockAt(cell)) \div 2

C12_FrameLinesTopDown ==
    Constructed =>
        LET lines == LinesOf(fmt(tower))
            w == tower.height * 2 + 6
        IN  /\ Len(lines) = tower.height
            /\ AllTerminated(fmt(tower))
            /\ \A k \in 1..Len(lines) : \A col \in 0..2 :
                  /\ Len(lines[k]) = 3 * w
                  /\ CellShows(SubSeq(lines[k], col * w + 1, (col + 1) * w))
                        = Shown(col, tower.height - k)
            /\ tower.height = 0 => fmt(tower) = <<>>

C12_Witness ==
    /\ pc = "run"
    /\ tower.height >= 3
    /\ Len(LinesOf(fmt(tower))) = tower.height
    /\ Len(tower.state[0]) >= 1 /\ Len(tower.state[1]) >= 2 /\ Len(tower.state[2]) >= 1

C12_WitnessZero == Constructed /\ tower.height = 0 /\ fmt(tower) = <<>>

\* C17: one move_peg(from, to) removes exactly the last element of peg `from`
\* and appends that value as the last element of peg `to`; the third peg, the
\* disks below on both pegs, the height and the delay stay as they were, and
\* printing a frame changes nothing in the tower.
MoveApplied == moves' # moves /\ pc' # "panic"

C17_MoveEffect ==
    /\ MoveApplied =>
          LET from == moves'[Len(moves')][1]
              to == moves'[Len(moves')][2]
              src == tower.state[from]
          IN  /\ Len(moves') = Len(moves) + 1
              /\ src # <<>>
              /\ tower'.state[from] = SubSeq(src, 1, Len(src) - 1)
              /\ tower'.state[to] = tower.state[to] \o <<src[Len(src)]>>
              /\ \A c \in 0..2 : c \notin {from, to} => tower'.state[c] = tower.state[c]
              /\ tower'.height = tower.height
              /\ tower'.print_delay = tower.print_delay
    /\ printed' # printed => tower' = tower

C17_MoveIsOnlyRelocation == [][C17_MoveEffect]_vars

C17_Witness ==
    /\ AtRender
    /\ Len(moves) >= 2
    /\ Len(tower.state[moves[Len(moves)][2]]) >= 2
    /\ tower.state[moves[Len(moves)][1]] # <<>>

\* C19: during one solve no tower configuration occurs twice: the initial
\* arrangement and the arrangements after each of the 2^h - 1 moves are
\* pairwise distinct.
Arrangements == {StateAfter(k) : k \in 0..Len(moves)}

C19_NoArrangementTwice ==
    (Constructed /\ pc # "panic") =>
        /\ \A k \in 0..(Len(moves) - 1) : StateAfter(k) # tower.state
        /\ StateAfter(Len(moves)) = tower.state
        /\ Cardinality(Arrangements) = Len(moves) + 1
        /\ SolveReturned => Cardinality(Arrangements) = Pow(2, tower.height)

C19_Witness ==
    /\ SolveReturned
    /\ tower.height >= 3
    /\ Cardinality(Arrangements) >= 8

\* C18: every call move_stack(n, start, target, aux) is entered with three
\* pairwise distinct pegs, with n, n-1, ..., 1 as the top n disks of start and
\* with only disks larger than n on target and aux; when it returns those n
\* disks sit in the same order on top of target and every larger disk is
\* where it was on entry.
AtEntry == pc = "run" /\ stack # <<>> /\ Top.pc = "enter"

AtReturn ==
    /\ pc = "run" /\ stack # <<>>
    /\ Top.pc = "ret" \/ (Top.pc = "enter" /\ Top.size = 0)

TopDisks(v, n) == SubSeq(v, Len(v) - n + 1, Len(v))

\* the disks of v larger than n, in the order they have in v
LargerThan(v, n) ==
    LET idx == {i \in 1..Len(v) : v[i] > n}
    IN  [k \in 1..Cardinality(idx) |->
            v[CHOOSE i \in idx : Cardinality({j \in idx : j <= i}) = k]]

C18_MoveStackContract ==
    /\ AtEntry =>
          LET n == Top.size
              st == tower.state
              start == get_value(Top.start)
              target == get_value(Top.target)
              aux == get_value(Top.aux)
          IN  /\ Cardinality({start, target, aux}) = 3
              /\ n >= 0 /\ n <= Len(st[start])
              /\ TopDisks(st[start], n) = Descending(n)
              /\ \A i \in 1..Len(st[target]) : st[target][i] > n
              /\ \A i \in 1..Len(st[aux]) : st[aux][i] > n
              /\ Top.called_at = Len(moves)
    /\ AtReturn =>
          LET n == Top.size
              st == tower.state
              entry == StateAfter(Top.called_at)
              target == get_value(Top.target)
          IN  /\ n <= Len(st[target])
              /\ TopDisks(st[target], n) = Descending(n)
              /\ \A c \in 0..2 : LargerThan(st[c], n) = LargerThan(entry[c], n)
              /\ \A c \in 0..2 : c # target => st[c] = LargerThan(entry[c], n)

C18_Witness ==
    /\ AtReturn
    /\ Top.size >= 2
    /\ Len(stack) >= 2
    /\ Len(tower.state[get_value(Top.target)]) > Top.size
    /\ Len(moves) - Top.called_at = Pow(2, Top.size) - 1

C18_WitnessEntry ==
    /\ AtEntry
    /\ Top.size >= 2
    /\ Len(tower.state[get_value(Top.target)]) >= 1

\* C13: for every height the command line accepts, the move count reported
\* with loglevel Minimal or All, computed as 2u32.pow(height) - 1 in u32
\* arithmetic, equals 2^height - 1, the number of moves solve performed.
\* 2^h - 1 without a width, as three 16-bit limbs <<top, hi, lo>> (h < 48)
WidePow2(h) == [i \in 1..3 |-> IF 3 - i = h \div 16 THEN Pow(2, h % 16) ELSE 0]

WideDec(x) == IF x[3] > 0 THEN <<x[1], x[2], x[3] - 1>>
              ELSE IF x[2] > 0 THEN <<x[1], x[2] - 1, Limb - 1>>
              ELSE <<x[1] - 1, Limb - 1, Limb - 1>>

TrueMoveCount(h) == WideDec(WidePow2(h))

Summarised == pc \in {"done", "panic"} /\ loglevel \in {"Minimal", "All"}

C13_ReportedCountIsExact ==
    Summarised =>
        /\ pc = "done"
        /\ Len(printed) >= 1
        /\ LET line == printed[Len(printed) - (IF loglevel = "All" THEN 2 ELSE 0)]
           IN  /\ line[1] = "Completed in"
               /\ <<0, line[2][1], line[2][2]>> = TrueMoveCount(tower.height)

\* C14: an argument list with an unknown token at an odd position, or with a
\* value flag followed by a missing or unparsable value, makes the program
\* print a message and exit with status 0 before a tower is constructed, a
\* frame printed or a move made.
KnownFlags == {Str_H, Str_help, Str_D, Str_delay, Str_N, Str_height, Str_L, Str_loglevel}
NumberFlags == {Str_D, Str_delay, Str_N, Str_height}
LevelFlags == {Str_L, Str_loglevel}

\* positions are those of the code: 0 is the program name
ArgAt(p) == args[p + 1]

BadValue(p) ==
    \/ p + 1 >= Len(args)
    \/ ArgAt(p) \in NumberFlags /\ ~parse_u32(ArgAt(p + 1)).ok
    \/ ArgAt(p) \in LevelFlags /\ to_lowercase(ArgAt(p + 1)) \notin {Str_all, Str_minimal, Str_none}

Malformed ==
    \/ \E p \in 1..(Len(args) - 1) : p % 2 = 1 /\ ArgAt(p) \notin KnownFlags
    \/ \E p \in 1..(Len(args) - 1) : ArgAt(p) \in NumberFlags \cup LevelFlags /\ BadValue(p)

C14_MalformedArgsExitZero ==
    /\ (Malformed /\ pc # "params") =>
          /\ pc = "exit"
          /\ exit_code = 0
          /\ printed # <<>>
          /\ printed[Len(printed)] = HelpPointer \/ printed = display_help
          /\ tower = Tower_new(0, 0)
          /\ moves = <<>>
          /\ stack = <<>>
    /\ pc = "exit" => ~ENABLED Next

C14_Witness ==
    /\ pc = "exit"
    /\ Len(args) = 4
    /\ ArgAt(1) = Str_N /\ parse_u32(ArgAt(2)).ok
    /\ ArgAt(3) \notin KnownFlags
    /\ exit_code = 0

C14_WitnessMissingValue ==
    /\ pc = "exit"
    /\ Len(args) = 4
    /\ ArgAt(1) = Str_L /\ ArgAt(2) = <<"A", "l", "L">>
    /\ ArgAt(3) = Str_delay

\* C15: solve terminates: from Tower::new the run reaches the state in which
\* every move_stack call has returned, with no exit or panic on the way.
C15_SolveTerminates ==
    /\ (pc = "new") ~> SolveReturned
    /\ [](pc \notin {"panic"} /\ (Constructed => exit_code \in {Running, 0}))

C15_Witness ==
    /\ pc = "run" /\ stack = <<>>
    /\ tower.height = 4
    /\ tower.print_delay = DELAY_MS
    /\ Len(printed) = 16

\* C16: with no arguments get_parameters yields delay 100 ms, height 6 and
\* loglevel Minimal, and the run ends by printing "Completed in 63 moves" and
\* neither the tower-height nor the delay line.
NoArguments == Len(args) = 1

C16_Defaults ==
    NoArguments =>
        /\ pc # "exit"
        /\ pc # "params" => delay = 100 /\ height = 6 /\ loglevel = "Minimal"
        /\ pc = "done" =>
              /\ printed[Len(printed)] = <<"Completed in", <<0, 63>>, "moves">>
              /\ Len(printed) = Len(Frames) + 1
              /\ \A k \in 1..Len(printed) : printed[k][1] \notin {"Tower height:", "Delay: ~"}
              /\ Len(moves) = 63

C16_Witness ==
    /\ NoArguments
    /\ pc = "done"
    /\ exit_code = 0
    /\ Len(printed) = 65

====
